---- MODULE Spec2Model ----
(***************************************************************************)
(* Model of the Hive destination connector                                 *)
(* (destination_hive/destination.py): establish_connection,                *)
(* DestinationHive.write and DestinationHive.check.                        *)
(*                                                                         *)
(* The batch writer (destination_hive/writer.py: create_hive_writer,       *)
(* delete_table, create_raw_table, queue_write_data, flush) is modelled    *)
(* from the specification's sections 4.2 and 4.3.                          *)
(***************************************************************************)
EXTENDS Integers, Sequences, FiniteSets, TLC

\* ------------------------------------------------------------------ bounds
MaxLen == 3          \* longest input message sequence explored
MaxThreshold == 2    \* largest flush threshold explored
MaxData == 2         \* number of distinct record payloads
PrevRows == 1        \* rows a pre-existing table holds from a previous sync

\* ------------------------------------------------------------- vocabulary
Catalog == <<"streamA", "streamB">>          \* configured_catalog.streams
Streams == {"streamA", "streamB", "streamC"} \* stream names a Record may carry
Modes == {"append", "overwrite"}
AuthTypes == {"MISSING", "", "LDAP", "ldap", "KERBEROS"}
Markers == {"M1", "M2"}

NoData == [x |-> 0]
StateMsg(m) == [type |-> "STATE", stream |-> "", data |-> NoData, state |-> m]
RecordMsg(s, d) == [type |-> "RECORD", stream |-> s, data |-> [x |-> d], state |-> ""]
OtherMsg == [type |-> "LOG", stream |-> "", data |-> NoData, state |-> ""]
Messages ==
    {StateMsg(m) : m \in Markers}
        \cup {RecordMsg(s, d) : s \in Streams, d \in 1..MaxData}
        \cup {OtherMsg}

VARIABLES
    op,           \* "write" or "check": the operation being run
    auth_type,    \* config["auth_type"] ("MISSING": the key is absent)
    threshold,    \* the writer's flush threshold (rows per stream)
    mode,         \* destination_sync_mode of each catalog stream
    prePopulated, \* the catalog's Raw Tables exist before the run
    phase,        \* position of the operation
    hive_conn,    \* value returned by establish_connection
    connects,     \* variants impala.dbapi.connect was called with
    session,      \* "none", "open" or "closed"
    releases,     \* number of releases that closed an open session
    error,        \* exception signalled to the caller ("none" if none)
    status,       \* AirbyteConnectionStatus.status returned by check
    message,      \* AirbyteConnectionStatus.message returned by check
    done,         \* steps that completed without error
    prepIdx,      \* index in Catalog of the stream being prepared
    prepDropped,  \* the stream at prepIdx has been dropped already
    ddl,          \* table DDL executed so far, in order
    input,        \* input messages consumed so far, in order
    output,       \* messages yielded so far, in order
    atYield,      \* the generator is suspended at the yield of line 82
    buffer,       \* the writer's pending rows per stream
    flushes,      \* bulk inserts executed per stream
    tableExists,  \* which Raw Tables exist
    tableRows     \* rows of each Raw Table

cfgVars == <<op, auth_type, threshold, mode, prePopulated>>
connVars == <<hive_conn, connects, session, releases>>
resVars == <<error, status, message>>
prepVars == <<prepIdx, prepDropped>>
ioVars == <<input, output, atYield>>
writerVars == <<buffer, flushes>>
tableVars == <<ddl, tableExists, tableRows>>
vars == <<cfgVars, connVars, resVars, prepVars, ioVars, writerVars, tableVars, phase, done>>

\* --------------------------------------------------------------- helpers
Upper(s) == IF s \in {"ldap", "Ldap", "LDAP"} THEN "LDAP" ELSE s

Falsy(v) == v = ""

JsonDumps(d) == "{\"x\": " \o ToString(d.x) \o "}"

Repr(e) == e \o "()"

streams == {Catalog[i] : i \in 1..Len(Catalog)}

OldRow(k) == [id |-> 0 - k, inserted_at |-> 0, data |-> "old"]

OldRows == [k \in 1..PrevRows |-> OldRow(k)]

\* ------------------------------------------------------------------ Init
Init ==
    /\ op \in {"write", "check"}
    /\ auth_type \in AuthTypes
    /\ threshold \in 1..MaxThreshold
    /\ mode \in [streams -> Modes]
    /\ prePopulated \in BOOLEAN
    /\ op = "check" =>
        /\ threshold = 1
        /\ \A s \in streams : mode[s] = "append"
        /\ ~prePopulated
    /\ tableExists = [s \in Streams |-> prePopulated /\ s \in streams]
    /\ tableRows = [s \in Streams |-> IF tableExists[s] THEN OldRows ELSE <<>>]
    /\ phase = "Connecting"
    /\ hive_conn = "unset"
    /\ connects = <<>>
    /\ session = "none"
    /\ releases = 0
    /\ error = "none"
    /\ status = "none"
    /\ message = ""
    /\ done = {}
    /\ prepIdx = 1
    /\ prepDropped = FALSE
    /\ ddl = <<>>
    /\ input = <<>>
    /\ output = <<>>
    /\ atYield = FALSE
    /\ buffer = [s \in Streams |-> <<>>]
    /\ flushes = [s \in Streams |-> 0]

\* ------------------------------------------------- exceptions and scoping
\* Propagates with a handler in write that records the error and carries on.
Propagates_Swallowed(err) ==
    /\ phase' = phase
    /\ error' = err
    /\ UNCHANGED <<status, message>>

\* write has no exception handler: the error reaches the caller.
Propagates(err) ==
    /\ phase' = "Failed"
    /\ error' = err
    /\ UNCHANGED <<status, message>>

\* Caught when the handler of check lets the exception through.
Caught_Reraised(err) ==
    /\ phase' = "Failed"
    /\ error' = err
    /\ UNCHANGED <<status, message>>

\* `except Exception as e` of check: the error becomes a FAILED status.
Caught(err) ==
    /\ phase' = "Done"
    /\ status' = "FAILED"
    /\ message' = "An exception occurred: " \o Repr(err)
    /\ error' = "none"

\* An exception leaving the body of the operation.
Raise(err) == IF op = "check" THEN Caught(err) ELSE Propagates(err)

\* __exit__ of the connection's with block.
ReleaseSession ==
    /\ session' = IF session = "open" THEN "closed" ELSE session
    /\ releases' = IF session = "open" THEN releases + 1 ELSE releases

\* ExitWith when the connection is used without a with block.
ExitWith_Leaky(err) ==
    /\ Raise(err)
    /\ UNCHANGED <<session, releases>>

\* An exception raised inside the with block.
ExitWith(err) ==
    /\ ReleaseSession
    /\ Raise(err)

\* ------------------------------------------------- establish_connection
Variant(a) ==
    IF a = "MISSING" THEN "KeyError"
    ELSE IF Falsy(a) THEN "none"
    ELSE IF Upper(a) = "LDAP" THEN "LDAP"
    ELSE "nobranch"

establish_connection(ok, logRaises) ==
    /\ phase = "Connecting"
    /\ LET v == Variant(auth_type)
           attempted == v \in {"none", "LDAP"}
           raised == v = "KeyError" \/ (attempted /\ ~ok)
       IN /\ connects' = IF attempted THEN Append(connects, v) ELSE connects
          /\ IF raised /\ logRaises /\ op = "check"
             THEN /\ Raise("TypeError")
                  /\ UNCHANGED hive_conn
             ELSE /\ hive_conn' = IF attempted /\ ok THEN "conn" ELSE "None"
                  /\ phase' = "Entering"
                  /\ UNCHANGED resVars
    /\ UNCHANGED <<cfgVars, session, releases, prepVars, ioVars, writerVars, tableVars, done>>

\* `with establish_connection(...) as connection`
EnterWith ==
    /\ phase = "Entering"
    /\ IF hive_conn = "None"
       THEN /\ Raise("AttributeError")
            /\ UNCHANGED <<session, done>>
       ELSE /\ session' = "open"
            /\ done' = done \cup {"session"}
            /\ phase' = IF op = "check" THEN "Select" ELSE "Writer"
            /\ UNCHANGED resVars
    /\ UNCHANGED <<cfgVars, hive_conn, connects, releases, prepVars, ioVars, writerVars, tableVars>>

\* ------------------------------------------------------------------ check
CheckSelect(ok) ==
    /\ op = "check"
    /\ phase = "Select"
    /\ IF ok
       THEN /\ done' = done \cup {"select1"}
            /\ phase' = "Writer"
            /\ UNCHANGED <<session, releases, resVars>>
       ELSE /\ ExitWith("HiveServer2Error")
            /\ UNCHANGED done
    /\ UNCHANGED <<cfgVars, hive_conn, connects, prepVars, ioVars, writerVars, tableVars>>

create_hive_writer(ok) ==
    /\ phase = "Writer"
    /\ IF ~ok
       THEN /\ ExitWith("WriterError")
            /\ UNCHANGED done
       ELSE /\ done' = done \cup {"writer"}
            /\ IF op = "check"
               THEN /\ ReleaseSession
                    /\ status' = "SUCCEEDED"
                    /\ phase' = "Done"
                    /\ UNCHANGED <<error, message>>
               ELSE /\ phase' = "Preparing"
                    /\ UNCHANGED <<session, releases, resVars>>
    /\ UNCHANGED <<cfgVars, hive_conn, connects, prepVars, ioVars, writerVars, tableVars>>

\* ------------------------------------------------------- the batch writer
\* delete_table: idempotent drop of a stream's Raw Table.
delete_table(s) ==
    /\ tableExists' = [tableExists EXCEPT ![s] = FALSE]
    /\ tableRows' = [tableRows EXCEPT ![s] = <<>>]
    /\ ddl' = Append(ddl, <<"drop", s>>)

\* create_raw_table: creates the table if absent, else a no-op.
create_raw_table(s) ==
    /\ tableExists' = [tableExists EXCEPT ![s] = TRUE]
    /\ tableRows' = tableRows
    /\ ddl' = Append(ddl, <<"create", s>>)

\* Row with the payload passed on without json.dumps.
Row_Unserialised(n, data) == [id |-> n, inserted_at |-> n, data |-> ToString(data.x)]

\* The row queue_write_data receives for the n-th input message: a fresh
\* uuid4, the clock reading, and the serialised payload.
Row(n, data) == [id |-> n, inserted_at |-> n, data |-> JsonDumps(data)]

Enqueue(buf, s, row) == [buf EXCEPT ![s] = Append(@, row)]

\* CrossesThreshold with a strict comparison.
CrossesThreshold_OffByOne(buf, s) == Len(buf[s]) > threshold

CrossesThreshold(buf, s) == Len(buf[s]) >= threshold

\* flush(stream) of the streams in S, starting from the buffers buf: one
\* bulk insert per stream that has pending rows, then its buffer is cleared.
FlushInto(buf, S) ==
    /\ tableRows' = [s \in Streams |->
            IF s \in S THEN tableRows[s] \o buf[s] ELSE tableRows[s]]
    /\ buffer' = [s \in Streams |-> IF s \in S THEN <<>> ELSE buf[s]]
    /\ flushes' = [s \in Streams |->
            IF s \in S /\ buf[s] # <<>> THEN flushes[s] + 1 ELSE flushes[s]]

\* FlushFails when the buffer is cleared before the bulk insert is executed.
FlushFails_Cleared(buf, s) ==
    /\ buffer' = [buf EXCEPT ![s] = <<>>]
    /\ UNCHANGED <<flushes, tableRows>>

\* flush(s) whose bulk insert fails, starting from the buffers buf: nothing
\* is written and the buffer is not cleared.
FlushFails(buf, s) ==
    /\ buffer' = buf
    /\ UNCHANGED <<flushes, tableRows>>

\* Streams in the order the writer first saw a row for them.
SeenOrder(msgs) ==
    LET F[i \in 0..Len(msgs)] ==
            IF i = 0 THEN <<>>
            ELSE LET m == msgs[i]
                     p == F[i - 1]
                 IN IF /\ m.type = "RECORD"
                       /\ m.stream \in streams
                       /\ \A j \in 1..Len(p) : p[j] # m.stream
                    THEN Append(p, m.stream)
                    ELSE p
    IN F[Len(msgs)]

\* ------------------------------------------------------ write: Preparing
\* NeedsWipe when every configured stream is wiped.
NeedsWipe_Always(m) == TRUE

\* NeedsWipe when the overwrite mode is never honoured.
NeedsWipe_Never(m) == FALSE

NeedsWipe(m) == m = "overwrite"

PrepareDrop(ok) ==
    /\ op = "write"
    /\ phase = "Preparing"
    /\ NeedsWipe(mode[Catalog[prepIdx]])
    /\ ~prepDropped
    /\ IF ok
       THEN /\ delete_table(Catalog[prepIdx])
            /\ prepDropped' = TRUE
            /\ UNCHANGED <<session, releases, resVars, phase, prepIdx>>
       ELSE /\ ExitWith("WriteError")
            /\ UNCHANGED <<prepVars, tableVars>>
    /\ UNCHANGED <<cfgVars, hive_conn, connects, ioVars, writerVars, done>>

\* PrepareCreate that logs a failed create and goes on with the next stream.
PrepareCreate_Tolerant(ok) ==
    /\ op = "write"
    /\ phase = "Preparing"
    /\ NeedsWipe(mode[Catalog[prepIdx]]) => prepDropped
    /\ IF ok
       THEN create_raw_table(Catalog[prepIdx])
       ELSE UNCHANGED tableVars
    /\ prepDropped' = FALSE
    /\ IF prepIdx = Len(Catalog)
       THEN phase' = "Draining" /\ UNCHANGED prepIdx
       ELSE prepIdx' = prepIdx + 1 /\ UNCHANGED phase
    /\ UNCHANGED <<session, releases, resVars>>
    /\ UNCHANGED <<cfgVars, hive_conn, connects, ioVars, writerVars, done>>

\* PrepareCreate that leaves the loop after the first configured stream.
PrepareCreate_Early(ok) ==
    /\ op = "write"
    /\ phase = "Preparing"
    /\ NeedsWipe(mode[Catalog[prepIdx]]) => prepDropped
    /\ IF ok
       THEN /\ create_raw_table(Catalog[prepIdx])
            /\ prepDropped' = FALSE
            /\ phase' = "Draining"
            /\ UNCHANGED prepIdx
            /\ UNCHANGED <<session, releases, resVars>>
       ELSE /\ ExitWith("WriteError")
            /\ UNCHANGED <<prepVars, tableVars>>
    /\ UNCHANGED <<cfgVars, hive_conn, connects, ioVars, writerVars, done>>

PrepareCreate(ok) ==
    /\ op = "write"
    /\ phase = "Preparing"
    /\ NeedsWipe(mode[Catalog[prepIdx]]) => prepDropped
    /\ IF ok
       THEN /\ create_raw_table(Catalog[prepIdx])
            /\ prepDropped' = FALSE
            /\ IF prepIdx = Len(Catalog)
               THEN phase' = "Draining" /\ UNCHANGED prepIdx
               ELSE prepIdx' = prepIdx + 1 /\ UNCHANGED phase
            /\ UNCHANGED <<session, releases, resVars>>
       ELSE /\ ExitWith("WriteError")
            /\ UNCHANGED <<prepVars, tableVars>>
    /\ UNCHANGED <<cfgVars, hive_conn, connects, ioVars, writerVars, done>>

\* ------------------------------------------------------- write: Draining
\* Selected without the check against the configured streams.
Selected_All(s) == TRUE

Selected(s) == s \in streams

\* DrainState that emits the newest marker ahead of the earlier ones.
DrainState_Reordered(m) ==
    /\ op = "write"
    /\ phase = "Draining"
    /\ Len(input) < MaxLen
    /\ m.type = "STATE"
    /\ input' = Append(input, m)
    /\ output' = <<m>> \o output
    /\ atYield' = TRUE
    /\ UNCHANGED <<cfgVars, connVars, resVars, prepVars, writerVars, tableVars, phase, done>>

\* DrainState that flushes every stream buffer before it yields the marker.
DrainState_Flushing(m) ==
    /\ op = "write"
    /\ phase = "Draining"
    /\ Len(input) < MaxLen
    /\ m.type = "STATE"
    /\ input' = Append(input, m)
    /\ output' = Append(output, m)
    /\ atYield' = TRUE
    /\ FlushInto(buffer, streams)
    /\ UNCHANGED <<cfgVars, connVars, resVars, prepVars, ddl, tableExists, phase, done>>

DrainState(m) ==
    /\ op = "write"
    /\ phase = "Draining"
    /\ Len(input) < MaxLen
    /\ m.type = "STATE"
    /\ input' = Append(input, m)
    /\ output' = Append(output, m)
    /\ atYield' = TRUE
    /\ UNCHANGED <<cfgVars, connVars, resVars, prepVars, writerVars, tableVars, phase, done>>

DrainSkip(m) ==
    /\ op = "write"
    /\ phase = "Draining"
    /\ Len(input) < MaxLen
    /\ m.type = "RECORD"
    /\ ~Selected(m.stream)
    /\ input' = Append(input, m)
    /\ atYield' = FALSE
    /\ UNCHANGED <<cfgVars, connVars, resVars, prepVars, output, writerVars, tableVars, phase, done>>

\* DrainRecord whose threshold flush commits the buffers of all streams.
DrainRecord_FlushAll(m, ok) ==
    /\ op = "write"
    /\ phase = "Draining"
    /\ Len(input) < MaxLen
    /\ m.type = "RECORD"
    /\ Selected(m.stream)
    /\ input' = Append(input, m)
    /\ atYield' = FALSE
    /\ LET s == m.stream
           queued == Enqueue(buffer, s, Row(Len(input) + 1, m.data))
       IN IF ~CrossesThreshold(queued, s)
          THEN /\ ok
               /\ buffer' = queued
               /\ UNCHANGED <<flushes, tableRows, connVars, resVars, phase>>
          ELSE IF ok
          THEN /\ FlushInto(queued, streams)
               /\ UNCHANGED <<connVars, resVars, phase>>
          ELSE /\ FlushFails(queued, s)
               /\ ExitWith("WriteError")
               /\ UNCHANGED <<hive_conn, connects>>
    /\ UNCHANGED <<cfgVars, prepVars, output, ddl, tableExists, done>>

\* DrainRecord with a flush of the stream after every queued row.
DrainRecord_FlushEach(m, ok) ==
    /\ op = "write"
    /\ phase = "Draining"
    /\ Len(input) < MaxLen
    /\ m.type = "RECORD"
    /\ Selected(m.stream)
    /\ input' = Append(input, m)
    /\ atYield' = FALSE
    /\ LET s == m.stream
           queued == Enqueue(buffer, s, Row(Len(input) + 1, m.data))
       IN IF ok
          THEN /\ FlushInto(queued, {s})
               /\ UNCHANGED <<connVars, resVars, phase>>
          ELSE /\ FlushFails(queued, s)
               /\ ExitWith("WriteError")
               /\ UNCHANGED <<hive_conn, connects>>
    /\ UNCHANGED <<cfgVars, prepVars, output, ddl, tableExists, done>>

DrainRecord(m, ok) ==
    /\ op = "write"
    /\ phase = "Draining"
    /\ Len(input) < MaxLen
    /\ m.type = "RECORD"
    /\ Selected(m.stream)
    /\ input' = Append(input, m)
    /\ atYield' = FALSE
    /\ LET s == m.stream
           queued == Enqueue(buffer, s, Row(Len(input) + 1, m.data))
       IN IF ~CrossesThreshold(queued, s)
          THEN /\ ok
               /\ buffer' = queued
               /\ UNCHANGED <<flushes, tableRows, connVars, resVars, phase>>
          ELSE IF ok
          THEN /\ FlushInto(queued, {s})
               /\ UNCHANGED <<connVars, resVars, phase>>
          ELSE /\ FlushFails(queued, s)
               /\ ExitWith("WriteError")
               /\ UNCHANGED <<hive_conn, connects>>
    /\ UNCHANGED <<cfgVars, prepVars, output, ddl, tableExists, done>>

\* DrainOther that yields every message that is not a Record.
DrainOther_Forwarded(m) ==
    /\ op = "write"
    /\ phase = "Draining"
    /\ Len(input) < MaxLen
    /\ m.type \notin {"STATE", "RECORD"}
    /\ input' = Append(input, m)
    /\ output' = Append(output, m)
    /\ atYield' = TRUE
    /\ UNCHANGED <<cfgVars, connVars, resVars, prepVars, writerVars, tableVars, phase, done>>

DrainOther(m) ==
    /\ op = "write"
    /\ phase = "Draining"
    /\ Len(input) < MaxLen
    /\ m.type \notin {"STATE", "RECORD"}
    /\ input' = Append(input, m)
    /\ atYield' = FALSE
    /\ UNCHANGED <<cfgVars, connVars, resVars, prepVars, output, writerVars, tableVars, phase, done>>

\* The consumer closes the generator while it is suspended at the yield.
Abandon ==
    /\ op = "write"
    /\ phase = "Draining"
    /\ atYield
    /\ ReleaseSession
    /\ phase' = "Cancelled"
    /\ atYield' = FALSE
    /\ UNCHANGED <<cfgVars, hive_conn, connects, resVars, prepVars, input, output, writerVars, tableVars, done>>

EndOfInput ==
    /\ op = "write"
    /\ phase = "Draining"
    /\ phase' = "Flushing"
    /\ atYield' = FALSE
    /\ UNCHANGED <<cfgVars, connVars, resVars, prepVars, input, output, writerVars, tableVars, done>>

\* ------------------------------------------------------- write: Flushing
\* FinalFlush without the trailing writer.flush().
FinalFlush_Skipped(failAt) ==
    /\ op = "write"
    /\ phase = "Flushing"
    /\ failAt = 0
    /\ ReleaseSession
    /\ phase' = "Done"
    /\ UNCHANGED <<cfgVars, hive_conn, connects, resVars, prepVars, ioVars, writerVars, tableVars, done>>

\* writer.flush(): failAt = 0 when every bulk insert succeeds, else the
\* position in SeenOrder of the stream whose bulk insert fails.
FinalFlush(failAt) ==
    /\ op = "write"
    /\ phase = "Flushing"
    /\ LET order == SeenOrder(input)
           before == {order[i] : i \in 1..(IF failAt = 0 THEN Len(order) ELSE failAt - 1)}
       IN /\ failAt \in 0..Len(order)
          /\ failAt > 0 => buffer[order[failAt]] # <<>>
          /\ FlushInto(buffer, before)
          /\ IF failAt = 0
             THEN /\ ReleaseSession
                  /\ phase' = "Done"
                  /\ UNCHANGED resVars
             ELSE ExitWith("WriteError")
    /\ UNCHANGED <<cfgVars, hive_conn, connects, prepVars, ioVars, ddl, tableExists, done>>

\* ------------------------------------------------------------------ Next
Next ==
    \/ \E ok \in BOOLEAN, logRaises \in BOOLEAN : establish_connection(ok, logRaises)
    \/ EnterWith
    \/ \E ok \in BOOLEAN : CheckSelect(ok)
    \/ \E ok \in BOOLEAN : create_hive_writer(ok)
    \/ \E ok \in BOOLEAN : PrepareDrop(ok)
    \/ \E ok \in BOOLEAN : PrepareCreate(ok)
    \/ \E m \in Messages : DrainState(m)
    \/ \E m \in Messages : DrainSkip(m)
    \/ \E m \in Messages, ok \in BOOLEAN : DrainRecord(m, ok)
    \/ \E m \in Messages : DrainOther(m)
    \/ Abandon
    \/ EndOfInput
    \/ \E failAt \in 0..Len(Catalog) : FinalFlush(failAt)

Spec == Init /\ [][Next]_vars

\* =================================================================== claims
IsState(m) == m.type = "STATE"

StateMarkers(msgs) == SelectSeq(msgs, IsState)

IsCatalogRecord(m) == m.type = "RECORD" /\ m.stream \in streams

\* The row of the i-th input message is in its stream's Raw Table.
Committed(i) ==
    \E j \in 1..Len(tableRows[input[i].stream]) :
        tableRows[input[i].stream][j].id = i

IsCurrent(row) == row.id > 0

CurrentRows(s) == SelectSeq(tableRows[s], IsCurrent)

\* Input positions of the Records of stream s, in input order.
Positions(s) ==
    LET F[i \in 0..Len(input)] ==
            IF i = 0 THEN <<>>
            ELSE IF input[i].type = "RECORD" /\ input[i].stream = s
                 THEN Append(F[i - 1], i)
                 ELSE F[i - 1]
    IN F[Len(input)]

Terminal == phase \in {"Done", "Failed", "Cancelled"}

\* C1: whenever write forwards a State Marker, every earlier Record of a
\* catalog stream has already been committed to its Raw Table.
C1_CommittedBeforeForward ==
    [][Len(output') > Len(output) =>
        \A i \in 1..Len(input) : IsCatalogRecord(input[i]) => Committed(i)]_vars

\* C2: the output consists of the State Markers consumed so far, unmodified
\* and in input order, and nothing else; at Done it is the whole State
\* Marker subsequence of the input.
C2_OutputIsStateSubsequence ==
    op = "write" =>
        /\ output = StateMarkers(input)
        /\ \A i \in 1..Len(output) : output[i] \in {StateMsg(m) : m \in Markers}

C2_Witness ==
    /\ phase = "Done"
    /\ Len(input) = 3
    /\ Len(output) = 2
    /\ output[1] # output[2]
    /\ IsCatalogRecord(input[2])

\* C3: a Record of a stream outside the catalog is never buffered, never
\* becomes a row of any Raw Table, and its stream's table is neither
\* created nor dropped.
C3_UnselectedDropped ==
    /\ \A s \in Streams \ streams :
        /\ buffer[s] = <<>>
        /\ tableRows[s] = <<>>
        /\ ~tableExists[s]
        /\ \A i \in 1..Len(ddl) : ddl[i][2] # s
    /\ \A i \in 1..Len(input) :
        (input[i].type = "RECORD" /\ input[i].stream \notin streams) =>
            \A s \in Streams :
                /\ \A j \in 1..Len(buffer[s]) : buffer[s][j].id # i
                /\ \A j \in 1..Len(tableRows[s]) : tableRows[s][j].id # i

C3_Witness ==
    /\ phase = "Done"
    /\ Len(input) = 2
    /\ input[1] = RecordMsg("streamC", 1)
    /\ IsCatalogRecord(input[2])
    /\ CurrentRows(input[2].stream) # <<>>

\* C4: an overwrite stream's table is dropped right before it is created,
\* so a table holding a row of the current sync holds no row of a previous
\* sync, and after a successful sync it holds current rows only.
C4_OverwriteWiped ==
    \A s \in streams : mode[s] = "overwrite" =>
        /\ \A i \in 1..Len(ddl) :
            ddl[i] = <<"create", s>> => i > 1 /\ ddl[i - 1] = <<"drop", s>>
        /\ CurrentRows(s) # <<>> => CurrentRows(s) = tableRows[s]
        /\ phase = "Done" => CurrentRows(s) = tableRows[s]

C4_Witness ==
    /\ prePopulated
    /\ mode["streamB"] = "overwrite"
    /\ phase = "Done"
    /\ Len(tableRows["streamB"]) = 1
    /\ tableRows["streamB"][1].id > 0

\* C5: when write reaches Done every stream buffer is empty and each input
\* Record of a catalog stream is in that stream's Raw Table exactly once.
C5_AllFlushedAtDone ==
    (op = "write" /\ phase = "Done") =>
        /\ \A s \in Streams : buffer[s] = <<>>
        /\ \A s \in streams :
            [k \in 1..Len(CurrentRows(s)) |-> CurrentRows(s)[k].id] = Positions(s)

C5_Witness ==
    /\ op = "write"
    /\ phase = "Done"
    /\ threshold = 2
    /\ Len(Positions("streamA")) = 1
    /\ Len(Positions("streamB")) = 2
    /\ flushes["streamA"] = 1

\* C6: no terminal state leaves an acquired Session open, and a Session is
\* released exactly once.
C6_SessionReleased ==
    /\ Terminal => session # "open"
    /\ releases <= 1
    /\ session = "closed" <=> releases = 1
    /\ (Terminal /\ "session" \in done) => session = "closed"

C6_Witness ==
    /\ phase = "Failed"
    /\ error = "WriteError"
    /\ session = "closed"
    /\ releases = 1
    /\ Len(input) > 0

\* C7: a flush error during Draining or Flushing reaches the caller: the
\* sync is Failed with the Session released, and from then on no message is
\* consumed, no State Marker forwarded, no row written and no flush retried.
C7_FlushErrorAborts ==
    /\ [](error # "none" => phase = "Failed" /\ session # "open")
    /\ [][error # "none" =>
            UNCHANGED <<input, output, buffer, flushes, tableRows, tableExists, ddl>>]_vars
    /\ [][(phase \in {"Draining", "Flushing"} /\ phase' = "Failed") =>
            (error' = "WriteError" /\ session' = "closed")]_vars

C7_Witness ==
    /\ phase = "Failed"
    /\ error = "WriteError"
    /\ Len(input) = 2
    /\ \E s \in streams : Len(buffer[s]) = 2
    /\ session = "closed"

\* C8: check never raises and always returns a status: SUCCEEDED only after
\* the session was acquired, SELECT 1 ran and the writer was constructed;
\* any failure gives FAILED with a non-empty message.
C8_CheckNeverRaises ==
    op = "check" =>
        /\ phase # "Failed"
        /\ error = "none"
        /\ phase = "Done" => status \in {"SUCCEEDED", "FAILED"}
        /\ status = "SUCCEEDED" => done = {"session", "select1", "writer"}
        /\ (phase = "Done" /\ done # {"session", "select1", "writer"}) => status = "FAILED"
        /\ status = "FAILED" => message # ""

C8_Witness ==
    /\ op = "check"
    /\ phase = "Done"
    /\ status = "FAILED"
    /\ connects # <<>>
    /\ hive_conn = "None"

\* C9: a connection attempt that fails makes establish_connection fail with
\* ConnectionError, which write signals to its caller from Connecting.
C9_ConnectionErrorSignalled ==
    (op = "write" /\ connects # <<>> /\ hive_conn = "None") =>
        (phase = "Failed" /\ error = "ConnectionError")

\* C10: an unset or empty auth_type connects with the "none" variant, LDAP
\* in any letter case with the credentialed variant, and any other value
\* fails with ConfigurationError without a connection attempt or a Session.
C10_AuthVariantSelection ==
    (op = "write" /\ phase # "Connecting") =>
        /\ auth_type \in {"MISSING", ""} => connects = <<"none">>
        /\ Upper(auth_type) = "LDAP" => connects = <<"LDAP">>
        /\ (auth_type \notin {"MISSING", ""} /\ Upper(auth_type) # "LDAP") =>
            /\ connects = <<>>
            /\ session = "none"
            /\ phase = "Failed"
            /\ error = "ConfigurationError"

\* C11: while write drains, the number of flushes of each stream is the
\* number of its enqueues divided by the threshold: none below the
\* threshold, exactly k right after the (k*T)-th enqueue, whatever was
\* enqueued for other streams in between.
C11_ThresholdFlushCount ==
    (op = "write" /\ phase = "Draining") =>
        \A s \in streams : flushes[s] = Len(Positions(s)) \div threshold

C11_Witness ==
    /\ phase = "Draining"
    /\ threshold = 2
    /\ Len(input) = 3
    /\ input[1].stream = "streamA"
    /\ input[2].stream = "streamB"
    /\ input[3].stream = "streamA"
    /\ flushes["streamA"] = 1
    /\ flushes["streamB"] = 0

\* The rows the Records of stream s consumed so far turn into, in input order.
ExpectedRows(s) ==
    [k \in 1..Len(Positions(s)) |->
        [id |-> Positions(s)[k],
         inserted_at |-> Positions(s)[k],
         data |-> JsonDumps(input[Positions(s)[k]].data)]]

\* C12: the rows enqueued for a stream are, in enqueue order and with the
\* serialised payloads, the rows committed so far followed by the pending
\* ones; a flush moves all pending rows of the stream into its Raw Table
\* as one bulk insert and leaves the stream's buffer empty.
C12_RoundTrip ==
    /\ [](op = "write" =>
            \A s \in streams : CurrentRows(s) \o buffer[s] = ExpectedRows(s))
    /\ [][\A s \in streams :
            Len(tableRows'[s]) > Len(tableRows[s]) =>
                /\ flushes'[s] = flushes[s] + 1
                /\ buffer'[s] = <<>>
                /\ CurrentRows(s)' = ExpectedRows(s)']_vars

C12_Witness ==
    /\ threshold = 2
    /\ flushes["streamA"] = 1
    /\ buffer["streamA"] = <<>>
    /\ Len(CurrentRows("streamA")) = 2
    /\ CurrentRows("streamA")[1].data = "{\"x\": 2}"
    /\ CurrentRows("streamA")[2].data = "{\"x\": 1}"

\* A step in which a flush fails during Draining or Flushing.
FlushFailureStep ==
    /\ phase \in {"Draining", "Flushing"}
    /\ error = "none"
    /\ error' = "WriteError"

\* Stream t is untouched by the step.
Untouched(t) ==
    /\ buffer'[t] = buffer[t]
    /\ tableRows'[t] = tableRows[t]
    /\ flushes'[t] = flushes[t]

\* C13: a failed flush of a stream raises WriteError, adds no row to the
\* stream's Raw Table and leaves its pending rows in place and in order;
\* the buffers and tables of the other streams are not changed by it (in
\* the final flush, streams flushed before the failing one were committed
\* whole by their own flush).
C13_FailedFlushKeepsBuffer ==
    [][FlushFailureStep =>
        IF phase = "Draining"
        THEN LET n == Len(input')
                 s == input'[n].stream
                 row == [id |-> n, inserted_at |-> n, data |-> JsonDumps(input'[n].data)]
             IN /\ buffer'[s] = Append(buffer[s], row)
                /\ tableRows'[s] = tableRows[s]
                /\ flushes'[s] = flushes[s]
                /\ \A t \in Streams \ {s} : Untouched(t)
        ELSE /\ \E s \in streams : buffer[s] # <<>> /\ Untouched(s)
             /\ \A t \in Streams :
                    \/ Untouched(t)
                    \/ /\ buffer'[t] = <<>>
                       /\ tableRows'[t] = tableRows[t] \o buffer[t]
                       /\ flushes'[t] = flushes[t] + 1]_vars

C13_Witness ==
    /\ phase = "Failed"
    /\ error = "WriteError"
    /\ threshold = 2
    /\ Len(input) = 3
    /\ Len(buffer["streamA"]) = 2
    /\ Len(buffer["streamB"]) = 1

IsPrefix(p, q) == Len(p) <= Len(q) /\ SubSeq(q, 1, Len(p)) = p

\* The table DDL of a whole Preparing phase: per catalog stream, in catalog
\* order, a drop if the stream is overwrite, then a create.
ExpectedDDL ==
    LET F[i \in 0..Len(Catalog)] ==
            IF i = 0 THEN <<>>
            ELSE F[i - 1]
                    \o (IF mode[Catalog[i]] = "overwrite"
                        THEN << <<"drop", Catalog[i]>> >>
                        ELSE <<>>)
                    \o << <<"create", Catalog[i]>> >>
    IN F[Len(Catalog)]

\* C14: the table DDL is, per catalog stream, a drop only if it is
\* overwrite followed by one create; all of it has been executed before the
\* first input message is consumed or any row is enqueued or flushed, and
\* none is executed once Draining has started.
C14_PreparingPrecedesDraining ==
    /\ [](op = "write" => IsPrefix(ddl, ExpectedDDL))
    /\ [](( /\ op = "write"
            /\ \/ input # <<>>
               \/ \E s \in Streams : buffer[s] # <<>> \/ flushes[s] > 0
               \/ phase \in {"Draining", "Flushing", "Done", "Cancelled"})
          => ddl = ExpectedDDL)
    /\ [][(phase \in {"Draining", "Flushing"}) =>
            UNCHANGED <<ddl, tableExists>>]_vars

C14_Witness ==
    /\ phase = "Flushing"
    /\ mode["streamA"] = "append"
    /\ mode["streamB"] = "overwrite"
    /\ ddl = << <<"create", "streamA">>, <<"drop", "streamB">>, <<"create", "streamB">> >>
    /\ buffer["streamB"] # <<>>
    /\ flushes["streamA"] = 1

\* Input positions of the Records of stream s that are not committed yet.
Uncommitted(s) ==
    {i \in 1..Len(input) :
        IsCatalogRecord(input[i]) /\ input[i].stream = s /\ ~Committed(i)}

\* C15: after every enqueue has returned, and whenever a State Marker is
\* forwarded, each stream has fewer pending rows than the flush threshold,
\* so fewer than that many Records before a forwarded marker are
\* uncommitted per stream.
C15_BoundedLag ==
    /\ []((op = "write" /\ phase \in {"Draining", "Flushing"}) =>
            \A s \in Streams :
                /\ Len(buffer[s]) < threshold
                /\ Cardinality(Uncommitted(s)) < threshold)
    /\ [][Len(output') > Len(output) =>
            \A s \in Streams :
                /\ Len(buffer'[s]) < threshold
                /\ Cardinality(Uncommitted(s)) < threshold]_vars

C15_Witness ==
    /\ phase = "Draining"
    /\ threshold = 2
    /\ Len(input) = 3
    /\ input[3].type = "STATE"
    /\ output = <<input[3]>>
    /\ Len(buffer["streamA"]) = 1
    /\ Len(buffer["streamB"]) = 1

\* A step that consumes an input message of the given type.
Consumes(type) ==
    /\ Len(input') = Len(input) + 1
    /\ input'[Len(input')].type = type

C17_ThresholdFlushPerStream ==
    [][Consumes("RECORD") =>
        LET s == input'[Len(input')].stream
        IN /\ \A t \in Streams \ {s} : Untouched(t)
           /\ flushes'[s] > flushes[s] =>
                /\ flushes'[s] = flushes[s] + 1
                /\ buffer'[s] = <<>>
                /\ Len(tableRows'[s]) = Len(tableRows[s]) + Len(buffer[s]) + 1
                /\ SubSeq(tableRows'[s], 1, Len(tableRows[s]) + Len(buffer[s]))
                        = tableRows[s] \o buffer[s]]_vars

C17_Witness ==
    /\ phase = "Draining"
    /\ threshold = 2
    /\ Len(input) = 3
    /\ input[1].stream = "streamB"
    /\ input[2].stream = "streamA"
    /\ input[3].stream = "streamA"
    /\ Len(buffer["streamB"]) = 1
    /\ buffer["streamA"] = <<>>
    /\ flushes["streamA"] = 1
    /\ flushes["streamB"] = 0

\* C18: the step that consumes a message that is neither a Record nor a
\* State Marker changes neither the output nor any stream buffer or Raw
\* Table, and write goes on draining.
C18_OtherMessageIgnored ==
    [][(/\ Len(input') = Len(input) + 1
        /\ input'[Len(input')].type \notin {"STATE", "RECORD"}) =>
            /\ UNCHANGED <<output, buffer, flushes, tableRows, tableExists, ddl>>
            /\ UNCHANGED <<session, error>>
            /\ phase' = "Draining"]_vars

C18_Witness ==
    /\ phase = "Done"
    /\ Len(input) = 3
    /\ input[1] = OtherMsg
    /\ IsCatalogRecord(input[2])
    /\ input[3].type = "STATE"
    /\ output = <<input[3]>>
    /\ Len(CurrentRows(input[2].stream)) = 1

\* No input message has been consumed and nothing enqueued, written or
\* forwarded.
NothingProcessed ==
    /\ input = <<>>
    /\ output = <<>>
    /\ \A s \in Streams :
        /\ buffer[s] = <<>>
        /\ flushes[s] = 0
        /\ CurrentRows(s) = <<>>

\* C19: a write that failed without a Session (Connecting) or before the
\* table DDL of Preparing was complete has consumed no input message,
\* enqueued and written no row and forwarded no State Marker; without a
\* Session it has executed no table DDL either.
C19_EarlyFailureProcessesNothing ==
    (op = "write" /\ phase = "Failed") =>
        /\ "session" \notin done =>
            /\ NothingProcessed
            /\ ddl = <<>>
            /\ \A s \in Streams : tableExists[s] = (prePopulated /\ s \in streams)
        /\ ddl # ExpectedDDL => NothingProcessed

C19_Witness ==
    /\ op = "write"
    /\ phase = "Failed"
    /\ error = "WriteError"
    /\ prePopulated
    /\ ddl = << <<"create", "streamA">>, <<"drop", "streamB">> >>
    /\ tableRows["streamB"] = <<>>

\* C20: the table of an append stream is never dropped, and the rows it
\* held before the sync are still its first rows in every later state,
\* whether the sync ends in Done or in Failed.
C20_AppendKeepsRows ==
    \A s \in streams : mode[s] = "append" =>
        /\ \A i \in 1..Len(ddl) : ddl[i] # <<"drop", s>>
        /\ prePopulated =>
            /\ tableExists[s]
            /\ IsPrefix(OldRows, tableRows[s])

C20_Witness ==
    /\ phase = "Failed"
    /\ prePopulated
    /\ mode["streamA"] = "append"
    /\ mode["streamB"] = "overwrite"
    /\ Len(tableRows["streamA"]) = PrevRows + 1
    /\ Len(buffer["streamB"]) = 1

====
